---------------------------- MODULE Spec2Model ----------------------------
(***************************************************************************)
(* Schema cache, field validator and issue-creation orchestration of the   *)
(* Jira MCP server (src/src/jira_mcp_server): SchemaCache, FieldValidator  *)
(* and tools/issue_tools.py.                                               *)
(***************************************************************************)
EXTENDS Integers, Sequences, FiniteSets, TLC

(***************************************************************************)
(* Bounds of the model.                                                    *)
(***************************************************************************)
\* the clock runs over 0..MaxTime
MaxTime == 3
\* the cache is constructed with a ttl of 0..MaxTtl clock units
MaxTtl == 2
\* operations performed on the cache in one run
MaxOps == 4
\* calls of jira_issue_create in one run
MaxCalls == 2
\* longest schema list handed to the validator
MaxSchemaLen == 2
\* most entries of a field map handed to the validator
MaxFields == 2
\* longest allowedValues list of a raw descriptor
MaxAllowed == 2

VARIABLES
    \* SchemaCache state (schema_cache.py:22-25)
    cache,      \* self._cache: function from composite key to CachedSchema
    ttl,        \* self._ttl, fixed at construction
    hits,       \* self._hits
    misses,     \* self._misses
    now,        \* datetime.now()
    \* what the last cache operation was and what it returned
    last,
    \* history of the run (observations, not program state)
    nops,       \* operations performed so far
    getHits,    \* get calls that returned a schema since clear_all/construction
    getMisses,  \* get calls that returned None since clear_all/construction
    setLog,     \* per composite key: the last set not since cleared
    \* one jira_issue_create call (tools/issue_tools.py:103-180)
    pc,         \* position of the call
    call,       \* its arguments
    schema,     \* the schema resolved for the call
    fields,     \* the field map assembled for the call
    netlog,     \* remote endpoints invoked during the call, in order
    cacheHit,   \* whether the call's cache get returned a schema
    validated,  \* "none", or how validate_fields ended: "ok" / "raised"
    outcome,    \* how the call ended
    lookupResponse, \* the remote's answer to the call's schema lookup
    trace,      \* what _get_field_schema did for the call, in order
    lookupError, \* str(e) of the exception _get_field_schema raised
    cacheBefore, \* self._cache as it was when the call started
    fetchLog,   \* per (project, issue type): time of the last schema
                \* lookup that returned a schema
    \* one call of the validator (validators.py)
    vin,        \* its input (fields, schema)
    vout,       \* its result
    \* one pass of the loop of _get_field_schema (tools/issue_tools.py:55-95)
    nin,        \* the raw descriptor (key, data)
    nout,       \* the FieldSchema built from it, or the error raised
    \* threads calling SchemaCache.get without serialization
    threads,    \* per thread: its position in get, its locals, its result
    lock        \* the thread holding the host's lock around get, or 0

cacheVars == <<cache, ttl, hits, misses, now>>
histVars == <<last, nops, getHits, getMisses, setLog>>
createVars == <<pc, call, schema, fields, netlog, cacheHit, validated,
               outcome, lookupResponse, trace, lookupError, cacheBefore,
               fetchLog>>
validatorVars == <<vin, vout>>
normalizerVars == <<nin, nout>>
concurrentVars == <<threads, lock>>
vars == <<cacheVars, histVars, createVars, validatorVars, normalizerVars,
          concurrentVars>>

(***************************************************************************)
(* Python values.  A value carries its Python type name, its str() and,    *)
(* for a list, its items (scalars).                                        *)
(***************************************************************************)
PyNone == [t |-> "NoneType", v |-> "None", items |-> <<>>]
PyStr(s) == [t |-> "str", v |-> s, items |-> <<>>]
PyInt(s) == [t |-> "int", v |-> s, items |-> <<>>]
PyFloat(s) == [t |-> "float", v |-> s, items |-> <<>>]
PyBool(s) == [t |-> "bool", v |-> s, items |-> <<>>]
PyDict(s) == [t |-> "dict", v |-> s, items |-> <<>>]
PyList(xs) == [t |-> "list", v |-> "[...]", items |-> xs]

\* value is None
IsNone(value) == value.t = "NoneType"
\* isinstance(value, (int, float)): bool is a subclass of int
IsIntOrFloat(value) == value.t \in {"int", "float", "bool"}
\* isinstance(value, str)
IsStr(value) == value.t = "str"
\* a list test that takes a str for a list too
IsStrOrList(value) == value.t \in {"str", "list"}
\* isinstance(value, list)
IsList(value) == value.t = "list"
\* bool(value) of a str argument / an Optional[str] argument
Truthy(value) ==
    CASE value.t = "NoneType" -> FALSE
      [] value.t = "str" -> value.v # ""
      [] value.t = "list" -> value.items # <<>>
      [] value.t = "bool" -> value.v = "True"
      [] value.t \in {"int", "float"} -> value.v \notin {"0", "0.0"}
      [] OTHER -> TRUE

(***************************************************************************)
(* Python dicts keep insertion order: a dict is a sequence of <<key,       *)
(* value>> pairs with distinct keys.                                       *)
(***************************************************************************)
DictKeys(d) == {d[n][1] : n \in 1..Len(d)}
DictIndex(d, k) == CHOOSE n \in 1..Len(d) : d[n][1] = k
\* d[k] = v: an existing key keeps its position
DictSet(d, k, v) ==
    IF k \in DictKeys(d)
    THEN [d EXCEPT ![DictIndex(d, k)] = <<k, v>>]
    ELSE Append(d, <<k, v>>)

(***************************************************************************)
(* models.py                                                               *)
(***************************************************************************)
FieldType == {"string", "number", "date", "datetime", "user", "option",
              "array", "multiselect"}

\* Optional[List[str]]: None, or a list of strings
NoAllowedValues == [defined |-> FALSE, values |-> <<>>]
AllowedValues(xs) == [defined |-> TRUE, values |-> xs]

FieldSchema(key, name, type, required, allowed_values, custom) ==
    [key |-> key, name |-> name, type |-> type, required |-> required,
     allowed_values |-> allowed_values, custom |-> custom]

(***************************************************************************)
(* schema_cache.py                                                         *)
(***************************************************************************)
\* Optional[List[FieldSchema]]: None, or a list (possibly empty)
None == [present |-> FALSE, fields |-> <<>>]
Some(fs) == [present |-> TRUE, fields |-> fs]

\* SchemaCache._make_key: f"{project_key}:{issue_type}"
_make_key(project_key, issue_type) == project_key \o ":" \o issue_type

CachedSchema(project_key, issue_type, fs, cached_at, expires_at) ==
    [project_key |-> project_key, issue_type |-> issue_type, fields |-> fs,
     cached_at |-> cached_at, expires_at |-> expires_at]

\* the dict without key k
DictDel(c, k) == [x \in DOMAIN c \ {k} |-> c[x]]
\* del c[k]: KeyError when k is not a key
DelItem(c, k) == [dict |-> DictDel(c, k), raised |-> k \notin DOMAIN c]
\* c.pop(k, None): never raises
PopDefault(c, k) == [dict |-> DictDel(c, k), raised |-> FALSE]
\* the dict with c[k] = e
DictPut(c, k, e) == [x \in DOMAIN c \cup {k} |-> IF x = k THEN e ELSE c[x]]
EmptyDict == [x \in {} |-> None]

\* the expiry test of get: datetime.now() >= entry.expires_at
ExpiredStrict(t, entry) == t > entry.expires_at
Expired(t, entry) == t >= entry.expires_at


\* get that reports an expired entry as absent and leaves it in the store
GetExpiredKept(project_key, issue_type) ==
    LET key == _make_key(project_key, issue_type)
    IN  IF key \notin DOMAIN cache
        THEN [cache |-> cache, hits |-> hits, misses |-> misses + 1,
              ret |-> None, raised |-> FALSE]
        ELSE IF Expired(now, cache[key])
        THEN [cache |-> cache, hits |-> hits,
              misses |-> misses + 1, ret |-> None, raised |-> FALSE]
        ELSE [cache |-> cache, hits |-> hits + 1, misses |-> misses,
              ret |-> Some(cache[key].fields), raised |-> FALSE]
\* get that records no miss when it evicts an expired entry
GetExpiryUncounted(project_key, issue_type) ==
    LET key == _make_key(project_key, issue_type)
    IN  IF key \notin DOMAIN cache
        THEN [cache |-> cache, hits |-> hits, misses |-> misses + 1,
              ret |-> None, raised |-> FALSE]
        ELSE IF Expired(now, cache[key])
        THEN [cache |-> DictDel(cache, key), hits |-> hits,
              misses |-> misses, ret |-> None, raised |-> FALSE]
        ELSE [cache |-> cache, hits |-> hits + 1, misses |-> misses,
              ret |-> Some(cache[key].fields), raised |-> FALSE]
\* SchemaCache.get: the state after the call, the value returned and
\* whether the call raised
get(project_key, issue_type) ==
    LET key == _make_key(project_key, issue_type)
    IN  IF key \notin DOMAIN cache
        THEN [cache |-> cache, hits |-> hits, misses |-> misses + 1,
              ret |-> None, raised |-> FALSE]
        ELSE IF Expired(now, cache[key])
        THEN LET d == DelItem(cache, key)
             IN  IF d.raised
                 THEN [cache |-> cache, hits |-> hits, misses |-> misses,
                       ret |-> None, raised |-> TRUE]
                 ELSE [cache |-> d.dict, hits |-> hits,
                       misses |-> misses + 1, ret |-> None,
                       raised |-> FALSE]
        ELSE [cache |-> cache, hits |-> hits + 1, misses |-> misses,
              ret |-> Some(cache[key].fields), raised |-> FALSE]

\* set that keeps the window of an entry it overwrites
SetKeepingWindow(project_key, issue_type, fs) ==
    LET key == _make_key(project_key, issue_type)
        cached_schema ==
            IF key \in DOMAIN cache
            THEN CachedSchema(project_key, issue_type, fs,
                              cache[key].cached_at, cache[key].expires_at)
            ELSE CachedSchema(project_key, issue_type, fs, now, now + ttl)
    IN  DictPut(cache, key, cached_schema)
\* set that extends the field list of an existing entry
SetMerging(project_key, issue_type, fs) ==
    LET key == _make_key(project_key, issue_type)
        old == IF key \in DOMAIN cache THEN cache[key].fields ELSE <<>>
    IN  DictPut(cache, key,
                CachedSchema(project_key, issue_type, old \o fs,
                             now, now + ttl))
\* SchemaCache.set: the store after the call
set(project_key, issue_type, fs) ==
    LET key == _make_key(project_key, issue_type)
        cached_schema == CachedSchema(project_key, issue_type, fs,
                                      now, now + ttl)
    IN  DictPut(cache, key, cached_schema)

\* clear by del self._cache[key]
ClearByDel(project_key, issue_type) ==
    DelItem(cache, _make_key(project_key, issue_type))
\* SchemaCache.clear: self._cache.pop(key, None)
clear(project_key, issue_type) ==
    LET key == _make_key(project_key, issue_type)
    IN  PopDefault(cache, key)

\* get_stats counting only the entries that have not expired
GetStatsUnexpired ==
    [hits |-> hits, misses |-> misses,
     total_entries |->
         Cardinality({k \in DOMAIN cache : ~Expired(now, cache[k])})]
\* SchemaCache.get_stats
get_stats ==
    [hits |-> hits, misses |-> misses,
     total_entries |-> Cardinality(DOMAIN cache)]

NoStats == [hits |-> 0, misses |-> 0, total_entries |-> 0]

(***************************************************************************)
(* validators.py.  A message is a sequence of text pieces (the literal     *)
(* parts of the f-string and the values interpolated into it); a joined    *)
(* string is the sequence of its pieces with the separator between them.   *)
(***************************************************************************)
RECURSIVE Join(_, _)
\* sep.join(xs) for a list xs of strings
Join(xs, sep) ==
    IF xs = <<>> THEN <<>>
    ELSE IF Len(xs) = 1 THEN <<xs[1]>>
    ELSE <<xs[1], sep>> \o Join(Tail(xs), sep)

RECURSIVE JoinMessages(_, _)
\* sep.join(msgs) for a list msgs of messages
JoinMessages(msgs, sep) ==
    IF msgs = <<>> THEN <<>>
    ELSE IF Len(msgs) = 1 THEN msgs[1]
    ELSE msgs[1] \o <<sep>> \o JoinMessages(Tail(msgs), sep)

\* [f.name for f in schema]
Names(fs) == [n \in 1..Len(fs) |-> fs[n].name]

\* validate_required_fields counting a key given with None as missing
ValidateRequiredNoneMissing(flds, sch) ==
    LET required_keys == {sch[n].key : n \in {m \in 1..Len(sch) :
                                                  sch[m].required}}
        provided_keys == {flds[n][1] : n \in {m \in 1..Len(flds) :
                                                  ~IsNone(flds[m][2])}}
        missing == required_keys \ provided_keys
        key_missing(f) == f.key \in missing
        missing_names == Names(SelectSeq(sch, key_missing))
    IN  IF missing # {}
        THEN << <<"Missing required fields: ">>
                    \o Join(missing_names, ", ") >>
        ELSE <<>>
\* validate_required_fields reporting only the first missing field
ValidateRequiredFirstOnly(flds, sch) ==
    LET required_keys == {sch[n].key : n \in {m \in 1..Len(sch) :
                                                  sch[m].required}}
        missing == required_keys \ DictKeys(flds)
        key_missing(f) == f.key \in missing
        missing_names == Names(SelectSeq(sch, key_missing))
    IN  IF missing # {}
        THEN << <<"Missing required fields: ", missing_names[1]>> >>
        ELSE <<>>
\* FieldValidator.validate_required_fields: the list of error messages
validate_required_fields(flds, sch) ==
    LET required_keys == {sch[n].key : n \in {m \in 1..Len(sch) :
                                                  sch[m].required}}
        provided_keys == DictKeys(flds)
        missing == required_keys \ provided_keys
        key_missing(f) == f.key \in missing
        missing_names == Names(SelectSeq(sch, key_missing))
    IN  IF missing # {}
        THEN << <<"Missing required fields: ">>
                    \o Join(missing_names, ", ") >>
        ELSE <<>>

\* value in allowed_values, a list of strings: only an equal string is in it
InStrList(value, xs) ==
    IsStr(value) /\ \E n \in 1..Len(xs) : xs[n] = value.v
\* bool(schema.allowed_values): None and the empty list are false
HasAllowedValues(sch) ==
    sch.allowed_values.defined /\ sch.allowed_values.values # <<>>

Valid == [is_valid |-> TRUE, error_msg |-> <<>>]
Invalid(msg) == [is_valid |-> FALSE, error_msg |-> msg]

\* the type-specific part of _validate_field_value, for a value that is
\* not None
TypeSpecificValidation(value, sch) ==
         CASE sch.type = "number" ->
                IF ~IsIntOrFloat(value)
                THEN Invalid(<<"Field '", sch.name,
                               "' must be a number, got ", value.t>>)
                ELSE Valid
           [] sch.type = "string" ->
                IF ~IsStr(value)
                THEN Invalid(<<"Field '", sch.name,
                               "' must be a string, got ", value.t>>)
                ELSE Valid
           [] sch.type = "option" ->
                IF HasAllowedValues(sch)
                   /\ ~InStrList(value, sch.allowed_values.values)
                THEN Invalid(<<"Invalid value '", value.v, "' for field '",
                               sch.name, "'. Allowed values: ">>
                             \o Join(sch.allowed_values.values, ", "))
                ELSE Valid
           [] sch.type = "multiselect" ->
                IF ~IsList(value)
                THEN Invalid(<<"Field '", sch.name, "' must be a list">>)
                ELSE IF HasAllowedValues(sch)
                        /\ \E n \in 1..Len(value.items) :
                              ~InStrList(value.items[n],
                                         sch.allowed_values.values)
                THEN LET n == CHOOSE m \in 1..Len(value.items) :
                                /\ ~InStrList(value.items[m],
                                              sch.allowed_values.values)
                                /\ \A l \in 1..(m - 1) :
                                      InStrList(value.items[l],
                                                sch.allowed_values.values)
                     IN  Invalid(<<"Invalid value '", value.items[n].v,
                                   "' in field '", sch.name,
                                   "'. Allowed values: ">>
                                 \o Join(sch.allowed_values.values, ", "))
                ELSE Valid
           [] sch.type = "array" ->
                IF ~IsList(value)
                THEN Invalid(<<"Field '", sch.name, "' must be an array">>)
                ELSE Valid
           [] sch.type = "date" ->
                IF ~IsStr(value)
                THEN Invalid(<<"Field '", sch.name,
                               "' must be a date string (ISO format)">>)
                ELSE Valid
           [] sch.type = "datetime" ->
                IF ~IsStr(value)
                THEN Invalid(<<"Field '", sch.name,
                               "' must be a datetime string (ISO format)">>)
                ELSE Valid
           [] OTHER -> Valid

\* _validate_field_value applying the type rule to None for an optional
\* field
ValidateFieldValueNoneTyped(value, sch) ==
    IF sch.required /\ IsNone(value)
    THEN Invalid(<<"Field '", sch.name, "' is required">>)
    ELSE TypeSpecificValidation(value, sch)
\* FieldValidator._validate_field_value: (is_valid, error_message)
_validate_field_value(value, sch) ==
    IF sch.required /\ IsNone(value)
    THEN Invalid(<<"Field '", sch.name, "' is required">>)
    ELSE IF IsNone(value) THEN Valid
    ELSE TypeSpecificValidation(value, sch)

\* schema_map = {f.key: f for f in schema}: the last entry of a key wins
SchemaMapKeys(sch) == {sch[n].key : n \in 1..Len(sch)}
SchemaMapGet(sch, k) ==
    sch[CHOOSE n \in 1..Len(sch) :
            sch[n].key = k /\ \A m \in (n + 1)..Len(sch) : sch[m].key # k]

RECURSIVE ValidateCustomUnknownReported(_, _)
\* validate_custom_field_values reporting a key the schema lacks
ValidateCustomUnknownReported(flds, sch) ==
    IF flds = <<>> THEN <<>>
    ELSE LET field_key == flds[1][1]
             value == flds[1][2]
             rest == ValidateCustomUnknownReported(Tail(flds), sch)
         IN  IF field_key \notin SchemaMapKeys(sch)
             THEN << <<"Unknown field '", field_key, "'">> >> \o rest
             ELSE LET r == _validate_field_value(
                               value, SchemaMapGet(sch, field_key))
                  IN  IF ~r.is_valid /\ r.error_msg # <<>>
                      THEN <<r.error_msg>> \o rest
                      ELSE rest
RECURSIVE validate_custom_field_values(_, _)
\* FieldValidator.validate_custom_field_values: the loop over fields.items()
validate_custom_field_values(flds, sch) ==
    IF flds = <<>> THEN <<>>
    ELSE LET field_key == flds[1][1]
             value == flds[1][2]
             rest == validate_custom_field_values(Tail(flds), sch)
         IN  IF field_key \notin SchemaMapKeys(sch)
             THEN rest
             ELSE LET r == _validate_field_value(
                               value, SchemaMapGet(sch, field_key))
                  IN  IF ~r.is_valid /\ r.error_msg # <<>>
                      THEN <<r.error_msg>> \o rest
                      ELSE rest

NotRaised == [raised |-> FALSE, reason |-> <<>>]
Raised(reason) == [raised |-> TRUE, reason |-> reason]

\* validate_fields raising with the first error alone
ValidateFieldsFirstError(flds, sch) ==
    LET errors == validate_required_fields(flds, sch)
                  \o validate_custom_field_values(flds, sch)
    IN  IF errors # <<>> THEN Raised(errors[1]) ELSE NotRaised
\* FieldValidator.validate_fields: returns None or raises
\* FieldValidationError("validation", reason)
validate_fields(flds, sch) ==
    LET errors == validate_required_fields(flds, sch)
                  \o validate_custom_field_values(flds, sch)
    IN  IF errors # <<>>
        THEN Raised(JoinMessages(errors, "; "))
        ELSE NotRaised

(***************************************************************************)
(* jira_client.py: get_project_schema, from the remote's response on.  A   *)
(* response is a transport failure or the createmeta document, its         *)
(* projects a list of records with a list of issue types, each with a      *)
(* name and a dict of field descriptors.                                   *)
(***************************************************************************)
Failure(msg) == [raised |-> TRUE, msg |-> msg, value |-> <<>>]
Returned(value) == [raised |-> FALSE, msg |-> "", value |-> value]

\* JiraClient.get_project_schema: the list of raw descriptors, or ValueError
get_project_schema(project_key, issue_type, response) ==
    IF response.status # 200
    THEN Failure("error response")
    ELSE LET projects == response.projects
         IN  IF projects = <<>>
             THEN Failure("Project " \o project_key
                          \o " not found or no issue types available")
             ELSE LET issue_types == projects[1].issuetypes
                  IN  IF issue_types = <<>>
                      THEN Failure("Issue type " \o issue_type
                                   \o " not found in project "
                                   \o project_key)
                      ELSE Returned(issue_types[1].fields)

(***************************************************************************)
(* tools/issue_tools.py                                                    *)
(***************************************************************************)
\* the keys that occur in the model, by shape
IdentifierKeys == {"summary", "description", "priority", "assignee",
                   "labels", "duedate", "project", "issuetype",
                   "customfield_10001", "unknown_key"}
CustomfieldKeys == {"customfield_10001", "customfield_10-2"}
\* str.isidentifier()
IsIdentifier(k) == k \in IdentifierKeys
\* str.startswith("customfield_")
StartsWithCustomfield(k) == k \in CustomfieldKeys
\* FieldSchema.validate_key (models.py)
validate_key(k) == IsIdentifier(k) \/ StartsWithCustomfield(k)

\* the mapping with a case for the wire type 'multiselect'
MapFieldTypeMultiSelect(schema_type) ==
    CASE schema_type = "number" -> "number"
      [] schema_type = "date" -> "date"
      [] schema_type = "datetime" -> "datetime"
      [] schema_type = "user" -> "user"
      [] schema_type = "option" -> "option"
      [] schema_type = "array" -> "array"
      [] schema_type = "multiselect" -> "multiselect"
      [] OTHER -> "string"
\* the FieldType of a wire type string
MapFieldType(schema_type) ==
    CASE schema_type = "number" -> "number"
      [] schema_type = "date" -> "date"
      [] schema_type = "datetime" -> "datetime"
      [] schema_type = "user" -> "user"
      [] schema_type = "option" -> "option"
      [] schema_type = "array" -> "array"
      [] OTHER -> "string"

\* v.get("value") or v.get("name"): a string, or None (as <<>>)
AllowedEntry(v) ==
    IF "value" \in DOMAIN v /\ v.value # "" THEN <<v.value>>
    ELSE IF "name" \in DOMAIN v THEN <<v.name>>
    ELSE <<>>

\* the body of the loop of _get_field_schema: one raw descriptor (its key
\* and the rest of it) to a FieldSchema, or a pydantic error
NormalizeField(field_key, field_data) ==
    LET field_name == IF "name" \in DOMAIN field_data
                      THEN field_data.name ELSE field_key
        field_required == IF "required" \in DOMAIN field_data
                          THEN field_data.required ELSE FALSE
        schema_type == IF "schema" \in DOMAIN field_data
                          /\ "type" \in DOMAIN field_data.schema
                       THEN field_data.schema.type ELSE "string"
        is_custom == IF "custom" \in DOMAIN field_data
                     THEN field_data.custom
                     ELSE StartsWithCustomfield(field_key)
        entries == IF "allowedValues" \in DOMAIN field_data
                   THEN [n \in 1..Len(field_data.allowedValues) |->
                            AllowedEntry(field_data.allowedValues[n])]
                   ELSE <<>>
        allowed_values ==
            IF "allowedValues" \in DOMAIN field_data
            THEN AllowedValues([n \in 1..Len(entries) |->
                                   IF entries[n] = <<>> THEN ""
                                   ELSE entries[n][1]])
            ELSE NoAllowedValues
    IN  IF ~validate_key(field_key)
           \/ \E n \in 1..Len(entries) : entries[n] = <<>>
        THEN Failure("validation error for FieldSchema")
        ELSE Returned(FieldSchema(field_key, field_name,
                                  MapFieldType(schema_type), field_required,
                                  allowed_values, is_custom))

\* the loop of _get_field_schema over the raw descriptors
NormalizeSchema(raw_schema) ==
    LET each == [n \in 1..Len(raw_schema) |->
                    NormalizeField(raw_schema[n][1], raw_schema[n][2])]
    IN  IF \E n \in 1..Len(each) : each[n].raised
        THEN Failure("validation error for FieldSchema")
        ELSE Returned([n \in 1..Len(each) |-> each[n].value])

\* _get_field_schema that never takes the cached schema
UseCachedNever(r) == FALSE
\* _get_field_schema: cached_schema is not None
UseCached(r) == r.ret.present

\* jira_issue_create: the field map of a call
BuildFields(c) ==
    LET f0 == << <<"project", PyDict("{'key': '" \o c.project \o "'}")>>,
                 <<"summary", c.summary>>,
                 <<"issuetype",
                   PyDict("{'name': '" \o c.issue_type \o "'}")>> >>
        f1 == IF Truthy(c.description)
              THEN DictSet(f0, "description", c.description) ELSE f0
        f2 == IF Truthy(c.priority)
              THEN DictSet(f1, "priority",
                           PyDict("{'name': '" \o c.priority.v \o "'}"))
              ELSE f1
        f3 == IF Truthy(c.assignee)
              THEN DictSet(f2, "assignee",
                           PyDict("{'name': '" \o c.assignee.v \o "'}"))
              ELSE f2
        f4 == IF Truthy(c.labels)
              THEN DictSet(f3, "labels", c.labels) ELSE f3
        f5 == IF Truthy(c.due_date)
              THEN DictSet(f4, "duedate", c.due_date) ELSE f4
        add[n \in 0..Len(c.custom_fields)] ==
            IF n = 0 THEN f5
            ELSE DictSet(add[n - 1], c.custom_fields[n][1],
                         c.custom_fields[n][2])
    IN  add[Len(c.custom_fields)]

\* jira_issue_update taking an empty string or list for a field not given
BuildUpdateFieldsTruthy(u) ==
    LET f1 == IF Truthy(u.summary)
              THEN DictSet(<<>>, "summary", u.summary) ELSE <<>>
        f2 == IF Truthy(u.description)
              THEN DictSet(f1, "description", u.description) ELSE f1
        f3 == IF Truthy(u.priority)
              THEN DictSet(f2, "priority",
                           PyDict("{'name': '" \o u.priority.v \o "'}"))
              ELSE f2
        f4 == IF Truthy(u.assignee)
              THEN DictSet(f3, "assignee",
                           PyDict("{'name': '" \o u.assignee.v \o "'}"))
              ELSE f3
        f5 == IF Truthy(u.labels)
              THEN DictSet(f4, "labels", u.labels) ELSE f4
        f6 == IF Truthy(u.due_date)
              THEN DictSet(f5, "duedate", u.due_date) ELSE f5
        add[n \in 0..Len(u.custom_fields)] ==
            IF n = 0 THEN f6
            ELSE DictSet(add[n - 1], u.custom_fields[n][1],
                         u.custom_fields[n][2])
    IN  add[Len(u.custom_fields)]
\* jira_issue_update: the field map of a call; jira_issue_update_tool
\* passes its arguments on, custom_fields as keyword arguments
BuildUpdateFields(u) ==
    LET f1 == IF ~IsNone(u.summary)
              THEN DictSet(<<>>, "summary", u.summary) ELSE <<>>
        f2 == IF ~IsNone(u.description)
              THEN DictSet(f1, "description", u.description) ELSE f1
        f3 == IF ~IsNone(u.priority)
              THEN DictSet(f2, "priority",
                           PyDict("{'name': '" \o u.priority.v \o "'}"))
              ELSE f2
        f4 == IF ~IsNone(u.assignee)
              THEN DictSet(f3, "assignee",
                           PyDict("{'name': '" \o u.assignee.v \o "'}"))
              ELSE f3
        f5 == IF ~IsNone(u.labels)
              THEN DictSet(f4, "labels", u.labels) ELSE f4
        f6 == IF ~IsNone(u.due_date)
              THEN DictSet(f5, "duedate", u.due_date) ELSE f5
        add[n \in 0..Len(u.custom_fields)] ==
            IF n = 0 THEN f6
            ELSE DictSet(add[n - 1], u.custom_fields[n][1],
                         u.custom_fields[n][2])
    IN  add[Len(u.custom_fields)]

\* jira_issue_create going on with an empty schema when the lookup failed
OnLookupErrorSwallowed(e) ==
    [pc |-> "validate", outcome |-> "none", detail |-> e.msg,
     event |-> "return"]
\* jira_issue_create calling the schema lookup again when it failed
OnLookupErrorRetry(e) ==
    [pc |-> "fetch", outcome |-> "none", detail |-> "", event |-> "retry"]
\* jira_issue_create when _get_field_schema raised: any exception ends the
\* call with ValueError("Failed to get project schema: ...")
OnLookupError(e) ==
    [pc |-> "done", outcome |-> "Failed to get project schema",
     detail |-> e.msg, event |-> "raise"]

\* jira_issue_create going on to the create endpoint whatever the validator
\* said
AfterValidationIgnored(r) == [pc |-> "create", outcome |-> "none"]
\* jira_issue_create after validate_fields: a FieldValidationError ends the
\* call with ValueError("Validation failed: ...")
AfterValidation(r) ==
    IF r.raised
    THEN [pc |-> "done", outcome |-> "Validation failed"]
    ELSE [pc |-> "create", outcome |-> "none"]

(***************************************************************************)
(* Inputs.                                                                 *)
(***************************************************************************)
\* (project key, issue type) pairs the callers use; project keys and issue
\* type names are arbitrary strings
Pairs == {<<"A", "C">>, <<"A", "B:C">>, <<"A:B", "C">>}

SummaryField == FieldSchema("summary", "Summary", "string", TRUE,
                            NoAllowedValues, FALSE)
StoryPoints == FieldSchema("customfield_10001", "Story Points", "number",
                           FALSE, NoAllowedValues, TRUE)
DescriptionField == FieldSchema("description", "Description", "string",
                                FALSE, NoAllowedValues, FALSE)

\* field lists handed to set
SchemaLists == {<<SummaryField, StoryPoints>>, <<DescriptionField>>,
                <<StoryPoints, SummaryField>>}

(***************************************************************************)
(* The cache's operations as actions.  Each records what it was called     *)
(* with and what it returned.                                              *)
(***************************************************************************)
Observe(op, project_key, issue_type, ret, stats, raised, over) ==
    [op |-> op, project_key |-> project_key, issue_type |-> issue_type,
     ret |-> ret, stats |-> stats, raised |-> raised, over |-> over]

\* the history after a get that returned ret for key: a get that finds
\* nothing under a key that was set has evicted it, now or earlier
LogGet(key, ret) ==
    IF ~ret.present /\ key \in DOMAIN setLog
    THEN [setLog EXCEPT ![key].evicted = TRUE]
    ELSE setLog
\* the history after set(key, fs)
LogSet(key, fs) ==
    DictPut(setLog, key, [at |-> now, fields |-> fs, evicted |-> FALSE])

Get(project_key, issue_type) ==
    /\ nops < MaxOps
    /\ LET r == get(project_key, issue_type)
       IN  /\ cache' = r.cache
           /\ hits' = r.hits
           /\ misses' = r.misses
           /\ last' = Observe("get", project_key, issue_type, r.ret,
                              NoStats, r.raised, FALSE)
           /\ getHits' = getHits + (IF r.ret.present THEN 1 ELSE 0)
           /\ getMisses' = getMisses
                           + (IF r.ret.present \/ r.raised THEN 0 ELSE 1)
           /\ setLog' = LogGet(_make_key(project_key, issue_type), r.ret)
    /\ nops' = nops + 1
    /\ UNCHANGED <<ttl, now, createVars, validatorVars,
                   normalizerVars, concurrentVars>>

Set(project_key, issue_type, fs) ==
    /\ nops < MaxOps
    /\ cache' = set(project_key, issue_type, fs)
    /\ LET key == _make_key(project_key, issue_type)
       IN  /\ last' = Observe("set", project_key, issue_type, None, NoStats,
                              FALSE,
                              key \in DOMAIN setLog
                                  /\ setLog[key].fields # fs)
           /\ setLog' = LogSet(key, fs)
    /\ nops' = nops + 1
    /\ UNCHANGED <<ttl, hits, misses, now, getHits, getMisses,
                   createVars, validatorVars,
                   normalizerVars, concurrentVars>>

Clear(project_key, issue_type) ==
    /\ nops < MaxOps
    /\ LET r == clear(project_key, issue_type)
       IN  /\ cache' = IF r.raised THEN cache ELSE r.dict
           /\ last' = Observe("clear", project_key, issue_type, None,
                              NoStats, r.raised,
                              _make_key(project_key, issue_type)
                                  \in DOMAIN cache)
    /\ setLog' = DictDel(setLog, _make_key(project_key, issue_type))
    /\ nops' = nops + 1
    /\ UNCHANGED <<ttl, hits, misses, now, getHits, getMisses,
                   createVars, validatorVars,
                   normalizerVars, concurrentVars>>

\* SchemaCache.clear_all
ClearAll ==
    /\ nops < MaxOps
    /\ cache' = EmptyDict
    /\ hits' = 0
    /\ misses' = 0
    /\ last' = Observe("clear_all", "", "", None, NoStats, FALSE,
                       DOMAIN cache # {})
    /\ setLog' = [x \in {} |-> 0]
    /\ getHits' = 0
    /\ getMisses' = 0
    /\ nops' = nops + 1
    /\ UNCHANGED <<ttl, now, createVars, validatorVars,
                   normalizerVars, concurrentVars>>

GetStats ==
    /\ nops < MaxOps
    /\ last' = Observe("get_stats", "", "", None, get_stats, FALSE, FALSE)
    /\ nops' = nops + 1
    /\ UNCHANGED <<cacheVars, getHits, getMisses, setLog,
                   createVars, validatorVars,
                   normalizerVars, concurrentVars>>

\* time passes between two operations
Tick ==
    /\ now < MaxTime
    /\ now' = now + 1
    /\ last' = Observe("tick", "", "", None, NoStats, FALSE, FALSE)
    /\ UNCHANGED <<cache, ttl, hits, misses, nops, getHits, getMisses,
                   setLog, createVars, validatorVars,
                   normalizerVars, concurrentVars>>

(***************************************************************************)
(* Initial states.                                                         *)
(***************************************************************************)
NoCall == [project |-> "", issue_type |-> "", summary |-> PyStr(""),
           description |-> PyStr(""), priority |-> PyNone,
           assignee |-> PyNone, labels |-> PyNone, due_date |-> PyNone,
           custom_fields |-> <<>>]

InitCache ==
    /\ cache = EmptyDict
    /\ hits = 0
    /\ misses = 0
    /\ now = 0
    /\ last = Observe("init", "", "", None, NoStats, FALSE, FALSE)
    /\ nops = 0
    /\ getHits = 0
    /\ getMisses = 0
    /\ setLog = [x \in {} |-> 0]

NoResponse == [status |-> 0, projects |-> <<>>]

InitCreate ==
    /\ pc = "idle"
    /\ call = NoCall
    /\ schema = <<>>
    /\ fields = <<>>
    /\ netlog = <<>>
    /\ cacheHit = FALSE
    /\ validated = "none"
    /\ outcome = "none"
    /\ lookupResponse = NoResponse
    /\ trace = <<>>
    /\ lookupError = ""
    /\ cacheBefore = EmptyDict
    /\ fetchLog = EmptyDict

NoResult == [op |-> "none", errors |-> <<>>, raised |-> FALSE,
             reason |-> <<>>]

InitValidator ==
    /\ vin = [fields |-> <<>>, schema |-> <<>>]
    /\ vout = NoResult

NoDescriptor == [key |-> "", data |-> EmptyDict]
NotNormalized == [op |-> "none", raised |-> FALSE, msg |-> "", value |-> <<>>]

InitNormalizer ==
    /\ nin = NoDescriptor
    /\ nout = NotNormalized

\* a caller that is not inside get: entry and tmp are the locals of get,
\* ret what its last call returned, raised whether one of its calls raised,
\* calls the number of its calls that have ended
NoEntry == CachedSchema("", "", <<>>, 0, 0)
Idle == [pc |-> "idle", entry |-> NoEntry, tmp |-> 0, ret |-> None,
         raised |-> FALSE, calls |-> 0]

\* no concurrent callers; lock is the host's serialization of cache
\* operations: "free", "held", or "none" for a host that has none
InitConcurrent ==
    /\ threads = <<>>
    /\ lock = "free"

(***************************************************************************)
(* SpecCache: the cache used directly through its five operations.         *)
(***************************************************************************)
CacheInit ==
    /\ InitCache
    /\ ttl \in 0..MaxTtl
    /\ InitCreate
    /\ InitValidator
    /\ InitNormalizer
    /\ InitConcurrent

CacheNext ==
    \/ \E pair \in Pairs : Get(pair[1], pair[2])
    \/ \E pair \in Pairs, fs \in SchemaLists : Set(pair[1], pair[2], fs)
    \/ \E pair \in Pairs : Clear(pair[1], pair[2])
    \/ ClearAll
    \/ GetStats
    \/ Tick

SpecCache == CacheInit /\ [][CacheNext]_vars

(***************************************************************************)
(* SpecValidator: the validator's three public methods applied to a field  *)
(* map and a schema list.  The keys of a schema list are distinct (the     *)
(* fetch path builds the list from the keys of a JSON object).             *)
(***************************************************************************)
AllowedVariants == {NoAllowedValues, AllowedValues(<<>>),
                    AllowedValues(<<"High", "Low">>)}

SchemaPool ==
    {FieldSchema("summary", "Summary", "string", r, NoAllowedValues, FALSE) :
        r \in BOOLEAN}
    \cup {FieldSchema("duedate", "Due Date", "date", TRUE, NoAllowedValues,
                      FALSE)}
    \cup {FieldSchema("customfield_10001", "Story Points", t, r,
                      NoAllowedValues, TRUE) :
             t \in FieldType \ {"option", "multiselect"}, r \in BOOLEAN}
    \cup {FieldSchema("customfield_10001", "Story Points", t, r, a, TRUE) :
             t \in {"option", "multiselect"}, r \in BOOLEAN,
             a \in AllowedVariants}

DistinctKeys(fs) ==
    \A m, n \in 1..Len(fs) : m # n => fs[m].key # fs[n].key

ValidatorSchemas ==
    UNION {{fs \in [1..n -> SchemaPool] : DistinctKeys(fs)} :
              n \in 0..MaxSchemaLen}

CustomValues ==
    {PyNone, PyStr("abc"), PyStr("High"), PyInt("5"), PyFloat("2.5"),
     PyBool("True"), PyDict("{'name': 'High'}"), PyList(<<>>),
     PyList(<<PyStr("High"), PyStr("Low")>>),
     PyList(<<PyStr("High"), PyStr("Bad"), PyStr("Worse")>>)}

FieldEntries ==
    {<<"summary", v>> : v \in {PyNone, PyStr("ok")}}
    \cup {<<"unknown_key", v>> : v \in {PyNone, PyInt("1"), PyStr("abc"),
                                         PyList(<<PyStr("Bad")>>)}}
    \cup {<<"customfield_10001", v>> : v \in CustomValues}

DistinctDictKeys(d) ==
    \A m, n \in 1..Len(d) : m # n => d[m][1] # d[n][1]

ValidatorFieldMaps ==
    UNION {{d \in [1..n -> FieldEntries] : DistinctDictKeys(d)} :
              n \in 0..MaxFields}

CallValidateRequiredFields ==
    /\ vout.op = "none"
    /\ vout' = [op |-> "validate_required_fields",
                errors |-> validate_required_fields(vin.fields, vin.schema),
                raised |-> FALSE, reason |-> <<>>]
    /\ UNCHANGED <<vin, cacheVars, histVars, createVars, normalizerVars,
                   concurrentVars>>

CallValidateCustomFieldValues ==
    /\ vout.op = "none"
    /\ vout' = [op |-> "validate_custom_field_values",
                errors |-> validate_custom_field_values(vin.fields,
                                                        vin.schema),
                raised |-> FALSE, reason |-> <<>>]
    /\ UNCHANGED <<vin, cacheVars, histVars, createVars, normalizerVars,
                   concurrentVars>>

CallValidateFields ==
    /\ vout.op = "none"
    /\ LET r == validate_fields(vin.fields, vin.schema)
       IN  vout' = [op |-> "validate_fields", errors |-> <<>>,
                    raised |-> r.raised, reason |-> r.reason]
    /\ UNCHANGED <<vin, cacheVars, histVars, createVars, normalizerVars,
                   concurrentVars>>

ValidatorInit ==
    /\ InitCache
    /\ ttl = 1
    /\ InitCreate
    /\ vin \in [fields : ValidatorFieldMaps, schema : ValidatorSchemas]
    /\ vout = NoResult
    /\ InitNormalizer
    /\ InitConcurrent

ValidatorNext ==
    \/ CallValidateRequiredFields
    \/ CallValidateCustomFieldValues
    \/ CallValidateFields

SpecValidator == ValidatorInit /\ [][ValidatorNext]_vars

(***************************************************************************)
(* SpecNormalize: one pass of the loop of _get_field_schema applied to a   *)
(* raw descriptor as get_project_schema returns it: its key and a JSON     *)
(* object in which name, required, custom, schema and allowedValues are    *)
(* each optional.                                                          *)
(***************************************************************************)
\* the entries of an allowedValues list
RawEntries == {[value |-> "High"], [name |-> "Low"],
               [value |-> "", name |-> "Low"],
               [value |-> "High", name |-> "Top"], [id |-> "7"]}

RawAllowedLists == UNION {[1..n -> RawEntries] : n \in 0..MaxAllowed}

\* schema.type strings of the remote
WireTypes == {"number", "date", "datetime", "user", "option", "array",
              "string", "multiselect", "Number", "any"}

\* a JSON object with the attribute name, one for each value, or without it
Optional(name, values) == {EmptyDict} \cup {name :> x : x \in values}

RawDescriptorData ==
    {a @@ b @@ c @@ d @@ e :
        a \in Optional("name", {"Story Points"}),
        b \in Optional("required", {TRUE}),
        c \in Optional("custom", BOOLEAN),
        d \in Optional("schema",
                       {EmptyDict} \cup {[type |-> t] : t \in WireTypes}),
        e \in Optional("allowedValues", RawAllowedLists)}

RawKeys == {"summary", "customfield_10001", "customfield_10-2",
            "fix-version"}

CallNormalizeField ==
    /\ nout.op = "none"
    /\ LET r == NormalizeField(nin.key, nin.data)
       IN  nout' = [op |-> "_get_field_schema", raised |-> r.raised,
                    msg |-> r.msg, value |-> r.value]
    /\ UNCHANGED <<nin, cacheVars, histVars, createVars, validatorVars,
                   concurrentVars>>

NormalizerInit ==
    /\ InitCache
    /\ ttl = 1
    /\ InitCreate
    /\ InitValidator
    /\ nin \in [key : RawKeys, data : RawDescriptorData]
    /\ nout = NotNormalized
    /\ InitConcurrent

NormalizerNext == CallNormalizeField

SpecNormalize == NormalizerInit /\ [][NormalizerNext]_vars

(***************************************************************************)
(* Spec: calls of jira_issue_create, one at a time, against a remote that  *)
(* answers the schema lookup and the create request as it pleases.         *)
(***************************************************************************)
RawSummary ==
    <<"summary", [name |-> "Summary", required |-> TRUE,
                  schema |-> [type |-> "string"]]>>
RawStoryPoints ==
    <<"customfield_10001", [name |-> "Story Points",
                            schema |-> [type |-> "number"]]>>
RawPriority ==
    <<"priority", [name |-> "Priority", schema |-> [type |-> "option"],
                   allowedValues |-> <<[name |-> "High"],
                                       [name |-> "Low"]>>]>>
RawBadKey ==
    <<"customfield_10-2", [name |-> "Team", schema |-> [type |-> "array"],
                           allowedValues |-> <<[id |-> "7"]>>]>>

\* the fields objects the remote returns for an issue type
RawFieldDicts == {<<RawSummary, RawStoryPoints>>, <<RawSummary, RawPriority>>,
                  <<RawStoryPoints, RawBadKey>>}

\* the remote's answers to a schema lookup
Responses(issue_type) ==
    {[status |-> 500, projects |-> <<>>],
     [status |-> 200, projects |-> <<>>],
     [status |-> 200, projects |-> <<[issuetypes |-> <<>>]>>]}
    \cup {[status |-> 200,
           projects |-> <<[issuetypes |->
                              <<[name |-> issue_type, fields |-> f]>>]>>] :
             f \in RawFieldDicts}
    \cup {[status |-> 200,
           projects |-> <<[issuetypes |->
                              <<[name |-> "Epic",
                                 fields |-> <<RawSummary,
                                              RawStoryPoints>>]>>]>>]}

\* the arguments of the calls
Calls ==
    {[project |-> p[1], issue_type |-> p[2], summary |-> PyStr("Fix it"),
      description |-> PyStr(""), priority |-> pr, assignee |-> PyNone,
      labels |-> PyNone, due_date |-> PyNone, custom_fields |-> cf] :
        p \in Pairs, pr \in {PyNone, PyStr("High")},
        cf \in {<<>>, << <<"customfield_10001", PyInt("5")>> >>,
                << <<"customfield_10001", PyStr("abc")>> >>}}

Request(endpoint, project, issue_type, data) ==
    [endpoint |-> endpoint, project |-> project, issue_type |-> issue_type,
     data |-> data]

\* jira_issue_create up to the schema lookup: _get_field_schema reads the
\* cache and, on a miss, calls the schema endpoint
CreateCall(c) ==
    /\ pc \in {"idle", "done"}
    /\ nops < MaxCalls
    /\ nops' = nops + 1
    /\ call' = c
    /\ fields' = <<>>
    /\ validated' = "none"
    /\ outcome' = "none"
    /\ lookupResponse' = NoResponse
    /\ lookupError' = ""
    /\ cacheBefore' = cache
    /\ fetchLog' = fetchLog
    /\ LET r == get(c.project, c.issue_type)
       IN  /\ cache' = r.cache
           /\ hits' = r.hits
           /\ misses' = r.misses
           /\ last' = Observe("get", c.project, c.issue_type, r.ret,
                              NoStats, r.raised, FALSE)
           /\ getHits' = getHits + (IF r.ret.present THEN 1 ELSE 0)
           /\ getMisses' = getMisses + (IF r.ret.present THEN 0 ELSE 1)
           /\ setLog' = LogGet(_make_key(c.project, c.issue_type), r.ret)
           /\ cacheHit' = r.ret.present
           /\ IF UseCached(r)
              THEN /\ schema' = r.ret.fields
                   /\ netlog' = <<>>
                   /\ trace' = <<"cache.get", "return">>
                   /\ pc' = "validate"
              ELSE /\ schema' = <<>>
                   /\ netlog' = <<Request("get_project_schema", c.project,
                                          c.issue_type, <<>>)>>
                   /\ trace' = <<"cache.get", "client.get_project_schema">>
                   /\ pc' = "fetch"
    /\ UNCHANGED <<ttl, now, validatorVars,
                   normalizerVars, concurrentVars>>

\* the schema lookup returns: _get_field_schema normalizes the descriptors
\* and caches the list; any exception ends the call
FetchReturn(response) ==
    /\ pc = "fetch"
    /\ LET raw == get_project_schema(call.project, call.issue_type,
                                     response)
           normalized == IF raw.raised THEN raw
                         ELSE NormalizeSchema(raw.value)
       IN  IF normalized.raised
           THEN LET next == OnLookupError(normalized)
                IN  /\ pc' = next.pc
                    /\ outcome' = next.outcome
                    /\ lookupError' = next.detail
                    /\ trace' = Append(trace, next.event)
                    /\ netlog' = IF next.pc = "fetch"
                                 THEN Append(netlog,
                                             Request("get_project_schema",
                                                     call.project,
                                                     call.issue_type, <<>>))
                                 ELSE netlog
                    /\ UNCHANGED <<cache, schema, last, setLog, fetchLog>>
           ELSE /\ cache' = set(call.project, call.issue_type,
                                normalized.value)
                /\ last' = Observe("set", call.project, call.issue_type,
                                   None, NoStats, FALSE, FALSE)
                /\ setLog' = LogSet(_make_key(call.project, call.issue_type),
                                    normalized.value)
                /\ schema' = normalized.value
                /\ trace' = trace \o <<"cache.set", "return">>
                /\ fetchLog' = DictPut(fetchLog,
                                       <<call.project, call.issue_type>>,
                                       now)
                /\ pc' = "validate"
                /\ UNCHANGED <<outcome, lookupError, netlog>>
    /\ lookupResponse' = response
    /\ UNCHANGED <<ttl, hits, misses, now, nops, getHits, getMisses, call,
                   fields, cacheHit, validated, cacheBefore, validatorVars,
                   normalizerVars, concurrentVars>>

\* jira_issue_create from the schema on: the field map is built and
\* validated and, if valid, handed to the create endpoint
ValidateAndSubmit ==
    /\ pc = "validate"
    /\ LET built == BuildFields(call)
           r == validate_fields(built, schema)
           next == AfterValidation(r)
       IN  /\ fields' = built
           /\ validated' = IF r.raised THEN "raised" ELSE "ok"
           /\ pc' = next.pc
           /\ outcome' = next.outcome
           /\ netlog' = IF next.pc = "create"
                        THEN Append(netlog,
                                    Request("create_issue", "", "", built))
                        ELSE netlog
    /\ UNCHANGED <<cacheVars, histVars, call, schema, cacheHit,
                   lookupResponse, trace, lookupError, cacheBefore, fetchLog,
                   validatorVars,
                   normalizerVars, concurrentVars>>

\* the create endpoint returns the created issue or fails
CreateReturn(ok) ==
    /\ pc = "create"
    /\ pc' = "done"
    /\ outcome' = IF ok THEN "created" ELSE "Failed to create issue"
    /\ UNCHANGED <<cacheVars, histVars, call, schema, fields, netlog,
                   cacheHit, validated, lookupResponse, trace, lookupError,
                   cacheBefore, fetchLog,
                   validatorVars,
                   normalizerVars, concurrentVars>>

Init ==
    /\ InitCache
    /\ ttl \in 1..MaxTtl
    /\ InitCreate
    /\ InitValidator
    /\ InitNormalizer
    /\ InitConcurrent

Next ==
    \/ \E c \in Calls : CreateCall(c)
    \/ \E response \in Responses(call.issue_type) : FetchReturn(response)
    \/ ValidateAndSubmit
    \/ \E ok \in BOOLEAN : CreateReturn(ok)
    \/ Tick

Spec == Init /\ [][Next]_vars

(***************************************************************************)
(* SpecConcurrent: two callers share the cache of initialize_issue_tools   *)
(* and run get on the same key, one statement at a time.  self._hits += 1  *)
(* and self._misses += 1 are a read followed by a write.  A host that      *)
(* serializes cache operations lets a caller into an operation only when   *)
(* no other caller is inside one.                                          *)
(***************************************************************************)
Callers == {"t1", "t2"}
\* the (project key, issue type) both callers ask for
SharedPair == <<"A", "C">>

\* get whose eviction of an expired entry records no miss, statement by
\* statement
GetStepExpiryUncounted(t) ==
    LET key == _make_key(SharedPair[1], SharedPair[2])
        same == [t |-> t, cache |-> cache, hits |-> hits, misses |-> misses]
    IN  CASE t.pc = "lookup" ->
               IF key \notin DOMAIN cache
               THEN [same EXCEPT !.t.pc = "miss_load"]
               ELSE [same EXCEPT !.t.pc = "expiry", !.t.entry = cache[key]]
          [] t.pc = "expiry" ->
               IF Expired(now, t.entry)
               THEN [same EXCEPT !.t.pc = "del"]
               ELSE [same EXCEPT !.t.pc = "hit_load"]
          [] t.pc = "del" ->
               LET d == DelItem(cache, key)
               IN  IF d.raised
                   THEN [same EXCEPT !.t.pc = "idle", !.t.raised = TRUE,
                                     !.t.calls = @ + 1]
                   ELSE [same EXCEPT !.t.pc = "return_none",
                                     !.cache = d.dict]
          [] t.pc = "miss_load" ->
               [same EXCEPT !.t.pc = "miss_store", !.t.tmp = misses]
          [] t.pc = "miss_store" ->
               [same EXCEPT !.t.pc = "return_none", !.misses = t.tmp + 1]
          [] t.pc = "return_none" ->
               [same EXCEPT !.t.pc = "idle", !.t.ret = None,
                            !.t.calls = @ + 1]
          [] t.pc = "hit_load" ->
               [same EXCEPT !.t.pc = "hit_store", !.t.tmp = hits]
          [] t.pc = "hit_store" ->
               [same EXCEPT !.t.pc = "return_fields", !.hits = t.tmp + 1]
          [] t.pc = "return_fields" ->
               [same EXCEPT !.t.pc = "idle", !.t.ret = Some(t.entry.fields),
                            !.t.calls = @ + 1]
\* SchemaCache.get, statement by statement: the caller t after its next
\* statement, and the cache and the counters after it
GetStep(t) ==
    LET key == _make_key(SharedPair[1], SharedPair[2])
        same == [t |-> t, cache |-> cache, hits |-> hits, misses |-> misses]
    IN  CASE t.pc = "lookup" ->
               \* entry = self._cache.get(key); if entry is None:
               IF key \notin DOMAIN cache
               THEN [same EXCEPT !.t.pc = "miss_load"]
               ELSE [same EXCEPT !.t.pc = "expiry", !.t.entry = cache[key]]
          [] t.pc = "expiry" ->
               \* if datetime.now() >= entry.expires_at:
               IF Expired(now, t.entry)
               THEN [same EXCEPT !.t.pc = "del"]
               ELSE [same EXCEPT !.t.pc = "hit_load"]
          [] t.pc = "del" ->
               \* del self._cache[key]
               LET d == DelItem(cache, key)
               IN  IF d.raised
                   THEN [same EXCEPT !.t.pc = "idle", !.t.raised = TRUE,
                                     !.t.calls = @ + 1]
                   ELSE [same EXCEPT !.t.pc = "miss_load",
                                     !.cache = d.dict]
          [] t.pc = "miss_load" ->
               \* self._misses += 1, the read
               [same EXCEPT !.t.pc = "miss_store", !.t.tmp = misses]
          [] t.pc = "miss_store" ->
               \* self._misses += 1, the write
               [same EXCEPT !.t.pc = "return_none", !.misses = t.tmp + 1]
          [] t.pc = "return_none" ->
               [same EXCEPT !.t.pc = "idle", !.t.ret = None,
                            !.t.calls = @ + 1]
          [] t.pc = "hit_load" ->
               \* self._hits += 1, the read
               [same EXCEPT !.t.pc = "hit_store", !.t.tmp = hits]
          [] t.pc = "hit_store" ->
               \* self._hits += 1, the write
               [same EXCEPT !.t.pc = "return_fields", !.hits = t.tmp + 1]
          [] t.pc = "return_fields" ->
               \* return entry.fields
               [same EXCEPT !.t.pc = "idle", !.t.ret = Some(t.entry.fields),
                            !.t.calls = @ + 1]

\* caller i calls get
BeginGet(i) ==
    /\ threads[i].pc = "idle"
    /\ nops < MaxOps
    /\ lock # "held"
    /\ nops' = nops + 1
    /\ threads' = [threads EXCEPT ![i].pc = "lookup"]
    /\ lock' = IF lock = "free" THEN "held" ELSE lock
    /\ UNCHANGED <<cache, ttl, hits, misses, now, last, getHits, getMisses,
                   setLog, createVars, validatorVars, normalizerVars>>

\* caller i executes the next statement of its get
StepGet(i) ==
    /\ threads[i].pc # "idle"
    /\ LET r == GetStep(threads[i])
       IN  /\ threads' = [threads EXCEPT ![i] = r.t]
           /\ cache' = r.cache
           /\ hits' = r.hits
           /\ misses' = r.misses
           /\ lock' = IF lock = "held" /\ r.t.pc = "idle"
                      THEN "free" ELSE lock
    /\ UNCHANGED <<ttl, now, last, nops, getHits, getMisses, setLog,
                   createVars, validatorVars, normalizerVars>>

\* the field list stored under the shared key
SharedSchemas == {<<SummaryField, StoryPoints>>}

\* a schema is stored under the shared key, as a whole operation
SharedSet(fs) ==
    /\ lock # "held"
    /\ Set(SharedPair[1], SharedPair[2], fs)

ConcurrentInit ==
    /\ InitCache
    /\ ttl \in 0..MaxTtl
    /\ InitCreate
    /\ InitValidator
    /\ InitNormalizer
    /\ threads = [i \in Callers |-> Idle]
    /\ lock \in {"free", "none"}

ConcurrentNext ==
    \/ \E i \in Callers : BeginGet(i)
    \/ \E i \in Callers : StepGet(i)
    \/ \E fs \in SharedSchemas : SharedSet(fs)
    \/ Tick

SpecConcurrent == ConcurrentInit /\ [][ConcurrentNext]_vars

(***************************************************************************)
(* SpecUpdate: calls of jira_issue_update_tool, one at a time, while the   *)
(* cache is filled and time passes.                                        *)
(***************************************************************************)
\* the arguments of the update calls
UpdateCalls ==
    {[issue_key |-> "A-1", summary |-> s, description |-> PyNone,
      priority |-> pr, assignee |-> PyNone, labels |-> l,
      due_date |-> PyNone, custom_fields |-> cf] :
        s \in {PyNone, PyStr(""), PyStr("New")},
        pr \in {PyNone, PyStr("High")},
        l \in {PyNone, PyList(<<>>)},
        cf \in {<<>>, << <<"customfield_10001", PyStr("abc")>> >>}}

\* jira_issue_update up to the update request
UpdateCall(u) ==
    /\ pc \in {"idle", "done"}
    /\ nops < MaxOps
    /\ nops' = nops + 1
    /\ call' = u
    /\ LET built == BuildUpdateFields(u)
       IN  /\ fields' = built
           /\ IF built = <<>>
              THEN /\ pc' = "done"
                   /\ outcome' = "No fields provided to update"
                   /\ netlog' = <<>>
              ELSE /\ pc' = "update"
                   /\ outcome' = "none"
                   /\ netlog' = <<Request("update_issue", u.issue_key, "",
                                          built)>>
    /\ UNCHANGED <<cacheVars, last, getHits, getMisses, setLog, schema,
                   cacheHit, validated, lookupResponse, trace, lookupError,
                   cacheBefore, fetchLog, validatorVars, normalizerVars,
                   concurrentVars>>

\* the update endpoint returns: the updated issue is read back, or the
\* call ends with 'Failed to update issue'
UpdateReturn(ok) ==
    /\ pc = "update"
    /\ IF ok
       THEN /\ pc' = "get_issue"
            /\ netlog' = Append(netlog, Request("get_issue", call.issue_key,
                                                "", <<>>))
            /\ UNCHANGED outcome
       ELSE /\ pc' = "done"
            /\ outcome' = "Failed to update issue"
            /\ UNCHANGED netlog
    /\ UNCHANGED <<cacheVars, histVars, call, schema, fields, cacheHit,
                   validated, lookupResponse, trace, lookupError,
                   cacheBefore, fetchLog, validatorVars, normalizerVars,
                   concurrentVars>>

\* the issue endpoint returns the updated issue or fails
GetIssueReturn(ok) ==
    /\ pc = "get_issue"
    /\ pc' = "done"
    /\ outcome' = IF ok THEN "updated" ELSE "Failed to update issue"
    /\ UNCHANGED <<cacheVars, histVars, call, schema, fields, netlog,
                   cacheHit, validated, lookupResponse, trace, lookupError,
                   cacheBefore, fetchLog, validatorVars, normalizerVars,
                   concurrentVars>>

UpdateInit ==
    /\ InitCache
    /\ ttl \in 1..MaxTtl
    /\ InitCreate
    /\ InitValidator
    /\ InitNormalizer
    /\ InitConcurrent

UpdateNext ==
    \/ \E u \in UpdateCalls : UpdateCall(u)
    \/ \E ok \in BOOLEAN : UpdateReturn(ok)
    \/ \E ok \in BOOLEAN : GetIssueReturn(ok)
    \/ \E fs \in SchemaLists : Set("A", "C", fs)
    \/ Tick

SpecUpdate == UpdateInit /\ [][UpdateNext]_vars

(***************************************************************************)
(* Properties of jira_issue_create (checked under Spec).                   *)
(***************************************************************************)
Invoked(endpoint) ==
    {n \in 1..Len(netlog) : netlog[n].endpoint = endpoint}

\* C1: the create endpoint is invoked only after validate_fields returned
\* without error for the field map of the call, and with that map; when
\* validate_fields raises, the create endpoint is not invoked and the call
\* ends with 'Validation failed'.
C1_ValidateBeforeCreate ==
    /\ \A n \in Invoked("create_issue") :
           /\ validated = "ok"
           /\ netlog[n].data = fields
           /\ fields = BuildFields(call)
           /\ ~validate_fields(netlog[n].data, schema).raised
    /\ validated = "raised" =>
           /\ Invoked("create_issue") = {}
           /\ pc = "done"
           /\ outcome = "Validation failed"
    /\ outcome \in {"created", "Failed to create issue"} =>
           validated = "ok"

\* a call whose custom field value breaks the schema has ended
C1_Witness ==
    /\ validated = "raised"
    /\ validate_fields(fields, schema).raised
    /\ outcome = "Validation failed"
    /\ Invoked("create_issue") = {}

\* C2 as stated: a call that fails validation makes no network call at
\* all, whatever the cache held when it started.
C2_NoNetworkOriginal ==
    validated = "raised" => netlog = <<>>

\* C2 as amended: a call that fails validation never invokes the create
\* endpoint; it makes no network call when its cache get returned a
\* schema, and exactly one, the schema lookup for its project and issue
\* type, when the schema was not cached or had expired.
C2_NoCreateOnFailure ==
    validated = "raised" =>
        /\ Invoked("create_issue") = {}
        /\ cacheHit => netlog = <<>>
        /\ ~cacheHit =>
               /\ Len(netlog) = 1
               /\ netlog[1].endpoint = "get_project_schema"
               /\ netlog[1].project = call.project
               /\ netlog[1].issue_type = call.issue_type

\* a call served from the cache has failed validation without any
\* network call
C2_Witness ==
    /\ validated = "raised"
    /\ cacheHit
    /\ netlog = <<>>
    /\ pc = "done"

(***************************************************************************)
(* Properties of the schema cache (checked under SpecCache).               *)
(***************************************************************************)
LastKey == _make_key(last.project_key, last.issue_type)

\* C3: a get on a key whose last set (not overwritten or cleared since)
\* happened at time T returns the stored field list if and only if
\* now < T + ttl; at now = T + ttl and later it returns None.
C3_TtlBoundary ==
    (last.op = "get" /\ LastKey \in DOMAIN setLog) =>
        /\ last.ret.present <=> now < setLog[LastKey].at + ttl
        /\ last.ret.present => last.ret.fields = setLog[LastKey].fields

\* a get exactly at the boundary now = T + ttl, which returns None
C3_Witness ==
    /\ last.op = "get"
    /\ LastKey \in DOMAIN setLog
    /\ ttl > 0
    /\ now = setLog[LastKey].at + ttl
    /\ ~last.ret.present

\* C4: set(P1, I1, S1) never changes what get(P2, I2) returns for a
\* different pair (P2, I2) of project key and issue-type name.
C4_Isolation ==
    [][\A p1 \in Pairs, fs \in SchemaLists :
          Set(p1[1], p1[2], fs) =>
              \A p2 \in Pairs \ {p1} :
                  (get(p2[1], p2[2]).ret)' = get(p2[1], p2[2]).ret]_vars

\* C5: a set on a key that was set before replaces the field list: the
\* entry holds exactly the new list, a get within the ttl returns exactly
\* it, and the store holds no further entry.
C5_Overwrite ==
    [][\A p \in Pairs :
          (/\ last'.op = "set"
           /\ nops' = nops + 1
           /\ <<last'.project_key, last'.issue_type>> = p
           /\ _make_key(p[1], p[2]) \in DOMAIN setLog) =>
              LET key == _make_key(p[1], p[2])
                  fs == setLog'[key].fields
              IN  /\ cache'[key].fields = fs
                  /\ DOMAIN cache' = DOMAIN cache \cup {key}
                  /\ key \in DOMAIN cache =>
                         Cardinality(DOMAIN cache')
                             = Cardinality(DOMAIN cache)
                  /\ ttl > 0 => (get(p[1], p[2]).ret)' = Some(fs)]_vars

\* a second set with another field list has just replaced a live entry
C5_Witness ==
    /\ last.op = "set"
    /\ last.over
    /\ LastKey \in DOMAIN cache
    /\ cache[LastKey].fields = setLog[LastKey].fields
    /\ Cardinality(DOMAIN cache) = 1

\* C6: hits is the number of get calls that returned a schema and misses
\* the number that returned None, since the last clear_all or construction;
\* get_stats reports them and clear_all sets both to 0.
C6_StatsAccounting ==
    /\ get_stats.hits = getHits
    /\ get_stats.misses = getMisses
    /\ last.op = "get_stats" =>
           last.stats.hits = getHits /\ last.stats.misses = getMisses
    /\ last.op = "clear_all" => hits = 0 /\ misses = 0

\* stats read after a hit and a miss on an expired entry
C6_Witness ==
    /\ last.op = "get_stats"
    /\ last.stats.hits >= 1
    /\ last.stats.misses >= 1
    /\ \E k \in DOMAIN setLog : setLog[k].evicted

\* C7: clear removes exactly the entry of its key when present, changes
\* nothing and raises nothing when absent, and leaves the other entries and
\* the counters unchanged; clear_all removes every entry; a get on a key
\* removed and not set again returns None.
C7_RemovalStep ==
    /\ \A p \in Pairs :
           Clear(p[1], p[2]) =>
               LET key == _make_key(p[1], p[2])
               IN  /\ ~last'.raised
                   /\ DOMAIN cache' = DOMAIN cache \ {key}
                   /\ \A k \in DOMAIN cache' : cache'[k] = cache[k]
                   /\ hits' = hits /\ misses' = misses
    /\ ClearAll => DOMAIN cache' = {}

C7_Removal ==
    /\ [][C7_RemovalStep]_vars
    /\ []((last.op = "get" /\ LastKey \notin DOMAIN setLog) =>
              ~last.ret.present)
    /\ [](last.op \in {"clear", "clear_all"} => ~last.raised)

\* a clear has removed one of two entries
C7_Witness ==
    /\ last.op = "clear"
    /\ last.over
    /\ LastKey \notin DOMAIN cache
    /\ Cardinality(DOMAIN cache) = 1

\* the keys for which a get at this moment would return a schema
GettableKeys == {k \in DOMAIN cache : ~Expired(now, cache[k])}
\* the keys set and neither cleared nor evicted by a get since
StoredKeys == {k \in DOMAIN setLog : ~setLog[k].evicted}

\* C8 as stated: total_entries equals the number of keys for which a get
\* at that moment would return a schema.
C8_LiveCountOriginal ==
    get_stats.total_entries = Cardinality(GettableKeys)

\* C8 as amended: total_entries is the number of entries in the store, an
\* expired entry included until a get evicts it; it is never less than the
\* number of keys a get would return a schema for.
C8_StoredCount ==
    /\ get_stats.total_entries = Cardinality(StoredKeys)
    /\ get_stats.total_entries >= Cardinality(GettableKeys)
    /\ last.op = "get_stats" =>
           last.stats.total_entries = Cardinality(StoredKeys)

\* stats read while an expired entry has not been read
C8_Witness ==
    /\ last.op = "get_stats"
    /\ last.stats.total_entries = 1
    /\ GettableKeys = {}
    /\ ttl > 0

(***************************************************************************)
(* Properties of the validator (checked under SpecValidator).              *)
(***************************************************************************)
RECURSIVE SplitOn(_, _)
\* the messages of a joined string: its pieces between the separators
SplitOn(pieces, sep) ==
    IF \A n \in 1..Len(pieces) : pieces[n] # sep
    THEN <<pieces>>
    ELSE LET n == CHOOSE m \in 1..Len(pieces) :
                      pieces[m] = sep /\ \A l \in 1..(m - 1) : pieces[l] # sep
         IN  <<SubSeq(pieces, 1, n - 1)>>
             \o SplitOn(SubSeq(pieces, n + 1, Len(pieces)), sep)

\* the schema positions of the required fields whose key the map lacks
MissingRequired ==
    {n \in 1..Len(vin.schema) :
        /\ vin.schema[n].required
        /\ \A m \in 1..Len(vin.fields) :
               vin.fields[m][1] # vin.schema[n].key}
\* the map positions whose key is in the schema and whose value breaks the
\* rule of its field
Violating ==
    {m \in 1..Len(vin.fields) :
        \E n \in 1..Len(vin.schema) :
            /\ vin.schema[n].key = vin.fields[m][1]
            /\ ~_validate_field_value(vin.fields[m][2],
                                      vin.schema[n]).is_valid}

RECURSIVE Ascending(_)
\* the elements of a set of numbers in ascending order
Ascending(S) ==
    IF S = {} THEN <<>>
    ELSE LET least == CHOOSE x \in S : \A y \in S : x <= y
         IN  <<least>> \o Ascending(S \ {least})

\* C10: validate_required_fields returns at most one message, and one if
\* and only if a required schema key is not a key of the map; the message
\* starts with 'Missing required fields' and lists the display names of
\* exactly the missing required fields, in schema order.
C10_RequiredFields ==
    vout.op = "validate_required_fields" =>
        LET missing == Ascending(MissingRequired)
        IN  /\ Len(vout.errors) <= 1
            /\ Len(vout.errors) = 1 <=> MissingRequired # {}
            /\ Len(vout.errors) = 1 =>
                   /\ vout.errors[1][1] = "Missing required fields: "
                   /\ Len(vout.errors[1]) = 2 * Len(missing)
                   /\ \A j \in 1..Len(missing) :
                          vout.errors[1][2 * j]
                              = vin.schema[missing[j]].name
                   /\ \A j \in 1..(Len(missing) - 1) :
                          vout.errors[1][2 * j + 1] = ", "

\* two required fields are missing while a field with a null value and an
\* optional field are not reported
C10_Witness ==
    /\ vout.op = "validate_required_fields"
    /\ Cardinality(MissingRequired) = 2
    /\ Len(vout.errors) = 1
    /\ \E m \in 1..Len(vin.fields) : IsNone(vin.fields[m][2])

\* the map positions whose key is the key of a schema entry
KnownPositions ==
    {m \in 1..Len(vin.fields) : vin.fields[m][1] \in SchemaMapKeys(vin.schema)}
\* the entries of the map at the positions S, in map order
Restrict(S) == [j \in 1..Cardinality(S) |-> vin.fields[Ascending(S)[j]]]
\* the messages of a list that name a field by its display name
MessagesNaming(errors, name) ==
    {i \in 1..Len(errors) : \E j \in 1..Len(errors[i]) : errors[i][j] = name}

\* C11: an entry of the map whose key is not the key of a schema entry
\* produces no violation whatever its value, and the violations of the
\* entries with known keys are those produced without the unknown entries.
C11_UnknownFieldTolerance ==
    vout.op = "validate_custom_field_values" =>
        LET violating == Ascending(Violating)
        IN  /\ Len(vout.errors) = Len(violating)
            /\ \A j \in 1..Len(violating) :
                   LET e == vin.fields[violating[j]]
                   IN  vout.errors[j]
                           = _validate_field_value(
                                 e[2], SchemaMapGet(vin.schema, e[1])).error_msg
            /\ KnownPositions = {} => vout.errors = <<>>
            /\ vout.errors
                   = validate_custom_field_values(Restrict(KnownPositions),
                                                  vin.schema)

\* an unknown key with a list value stands before a known key whose value
\* breaks its rule: only the known key is reported
C11_Witness ==
    /\ vout.op = "validate_custom_field_values"
    /\ Len(vin.fields) = 2
    /\ vin.fields[1][1] = "unknown_key"
    /\ IsList(vin.fields[1][2])
    /\ Violating = {2}
    /\ Len(vout.errors) = 1

\* C12: a None value for a required schema field yields exactly one
\* violation, "Field '<display name>' is required"; a None value for an
\* optional schema field yields no violation, whatever the field's type.
C12_NullHandling ==
    vout.op = "validate_custom_field_values" =>
        \A m \in 1..Len(vin.fields), n \in 1..Len(vin.schema) :
            (/\ vin.schema[n].key = vin.fields[m][1]
             /\ IsNone(vin.fields[m][2])) =>
                LET named == MessagesNaming(vout.errors, vin.schema[n].name)
                IN  IF vin.schema[n].required
                    THEN /\ Cardinality(named) = 1
                         /\ \A i \in named :
                                vout.errors[i] = <<"Field '",
                                                   vin.schema[n].name,
                                                   "' is required">>
                    ELSE named = {}

\* None for a required string field is reported and None for an optional
\* number field is not
C12_Witness ==
    /\ vout.op = "validate_custom_field_values"
    /\ Len(vout.errors) = 1
    /\ \E m \in 1..Len(vin.fields), n \in 1..Len(vin.schema) :
           /\ vin.schema[n].key = vin.fields[m][1]
           /\ IsNone(vin.fields[m][2])
           /\ vin.schema[n].required
    /\ \E m \in 1..Len(vin.fields), n \in 1..Len(vin.schema) :
           /\ vin.schema[n].key = vin.fields[m][1]
           /\ IsNone(vin.fields[m][2])
           /\ ~vin.schema[n].required
           /\ vin.schema[n].type = "number"

\* C13: for a schema field of type NUMBER and a value that is not None, no
\* violation is produced if and only if the value is an int or a float; a
\* value of any other kind (str, bool, list, dict) yields exactly one
\* violation naming the display name and saying 'must be a number'.
C13_NumberRule ==
    vout.op = "validate_custom_field_values" =>
        \A m \in 1..Len(vin.fields), n \in 1..Len(vin.schema) :
            (/\ vin.schema[n].key = vin.fields[m][1]
             /\ vin.schema[n].type = "number"
             /\ ~IsNone(vin.fields[m][2])) =>
                LET named == MessagesNaming(vout.errors, vin.schema[n].name)
                IN  IF vin.fields[m][2].t \in {"int", "float"}
                    THEN named = {}
                    ELSE /\ Cardinality(named) = 1
                         /\ \A i \in named :
                                /\ vout.errors[i][1] = "Field '"
                                /\ vout.errors[i][3]
                                       = "' must be a number, got "

\* value in xs, for a list xs of strings: exact match with an element
MemberOf(value, xs) ==
    value.t = "str" /\ \E n \in 1..Len(xs) : xs[n] = value.v
\* the text pieces that list xs joined by ', '
Listed(xs) ==
    [j \in 1..(IF xs = <<>> THEN 0 ELSE 2 * Len(xs) - 1) |->
        IF j % 2 = 1 THEN xs[(j + 1) \div 2] ELSE ", "]

\* C14: for a schema field of type OPTION whose allowed_values is defined
\* (any list, the empty list included) and a value that is not None, no
\* violation is produced if and only if the value is a member of
\* allowed_values by exact match; otherwise exactly one violation lists all
\* allowed values in schema order.  When allowed_values is not defined
\* every value passes.
C14_OptionRule ==
    vout.op = "validate_custom_field_values" =>
        \A m \in 1..Len(vin.fields), n \in 1..Len(vin.schema) :
            (/\ vin.schema[n].key = vin.fields[m][1]
             /\ vin.schema[n].type = "option"
             /\ ~IsNone(vin.fields[m][2])) =>
                LET named == MessagesNaming(vout.errors, vin.schema[n].name)
                    allowed == vin.schema[n].allowed_values
                IN  IF ~allowed.defined
                       \/ MemberOf(vin.fields[m][2], allowed.values)
                    THEN named = {}
                    ELSE /\ Cardinality(named) = 1
                         /\ \A i \in named :
                                /\ vout.errors[i][1] = "Invalid value '"
                                /\ SubSeq(vout.errors[i], 6,
                                          Len(vout.errors[i]))
                                       = Listed(allowed.values)

\* C15: for a schema field of type MULTI_SELECT and a value that is not
\* None, a value that is not a list yields exactly one violation 'must be a
\* list'; a list passes if allowed_values is undefined or every element is
\* a member of it; otherwise exactly one violation names the first
\* offending element, in list order, and the full allowed list.
C15_MultiSelectRule ==
    vout.op = "validate_custom_field_values" =>
        \A m \in 1..Len(vin.fields), n \in 1..Len(vin.schema) :
            (/\ vin.schema[n].key = vin.fields[m][1]
             /\ vin.schema[n].type = "multiselect"
             /\ ~IsNone(vin.fields[m][2])) =>
                LET named == MessagesNaming(vout.errors, vin.schema[n].name)
                    allowed == vin.schema[n].allowed_values
                    value == vin.fields[m][2]
                    offending == {k \in 1..Len(value.items) :
                                     ~MemberOf(value.items[k],
                                               allowed.values)}
                IN  IF value.t # "list"
                    THEN /\ Cardinality(named) = 1
                         /\ \A i \in named :
                                vout.errors[i] = <<"Field '",
                                                   vin.schema[n].name,
                                                   "' must be a list">>
                    ELSE IF ~allowed.defined \/ offending = {}
                    THEN named = {}
                    ELSE /\ Cardinality(named) = 1
                         /\ \A i \in named :
                                /\ vout.errors[i][1] = "Invalid value '"
                                /\ vout.errors[i][2]
                                       = value.items[Ascending(offending)[1]].v
                                /\ SubSeq(vout.errors[i], 6,
                                          Len(vout.errors[i]))
                                       = Listed(allowed.values)

(***************************************************************************)
(* Properties of the normalizer (checked under SpecNormalize).             *)
(***************************************************************************)
\* the descriptor has been normalized to a FieldSchema
Normalized == nout.op = "_get_field_schema" /\ ~nout.raised
\* the wire type string of the descriptor, <<>> when absent
WireType ==
    IF "schema" \in DOMAIN nin.data /\ "type" \in DOMAIN nin.data.schema
    THEN <<nin.data.schema.type>>
    ELSE <<>>

\* C17: the wire types number, date, datetime, user, option and array map
\* to NUMBER, DATE, DATETIME, USER, OPTION and ARRAY by exact match; every
\* other wire type and an absent one map to STRING; no descriptor is
\* normalized to MULTI_SELECT.
C17_WireTypeMapping ==
    Normalized =>
        /\ nout.value.type
               = (IF WireType # <<>>
                     /\ WireType[1] \in {"number", "date", "datetime",
                                         "user", "option", "array"}
                  THEN WireType[1]
                  ELSE "string")
        /\ nout.value.type # "multiselect"
        /\ nout.value.type \in FieldType

\* a descriptor of wire type 'multiselect' has become a STRING field
C17_Witness ==
    /\ Normalized
    /\ WireType = <<"multiselect">>
    /\ nout.value.type = "string"

\* C18: custom is true if the descriptor's custom flag is true or the key
\* starts with 'customfield_', for every combination of the flag (absent,
\* true, false) and the key; a key with the prefix always yields true.
C18_CustomFlag ==
    Normalized =>
        (nout.value.custom
            <=> \/ ("custom" \in DOMAIN nin.data /\ nin.data.custom)
                \/ StartsWithCustomfield(nin.key))

\* C19: with an allowedValues list, allowed_values has the same length and
\* order and its i-th element is the i-th entry's value attribute whenever
\* present, whatever its content, and its name attribute otherwise; without
\* allowedValues, allowed_values is undefined.
C19_AllowedValues ==
    Normalized =>
        IF "allowedValues" \in DOMAIN nin.data
        THEN LET raw == nin.data.allowedValues
             IN  /\ nout.value.allowed_values.defined
                 /\ Len(nout.value.allowed_values.values) = Len(raw)
                 /\ \A i \in 1..Len(raw) :
                        nout.value.allowed_values.values[i]
                            = (IF "value" \in DOMAIN raw[i]
                               THEN raw[i].value ELSE raw[i].name)
        ELSE ~nout.value.allowed_values.defined

(***************************************************************************)
(* Properties of the schema lookup of a call (checked under Spec).         *)
(***************************************************************************)
\* the key under which the call's schema is cached
CallKey == _make_key(call.project, call.issue_type)
\* the call's schema lookup has failed
LookupFailed == pc = "done" /\ outcome = "Failed to get project schema"
\* no field list was returned to the call or stored by it
NothingReturnedOrCached ==
    /\ LookupFailed
    /\ schema = <<>>
    /\ \A n \in 1..Len(trace) : trace[n] \notin {"cache.set", "return"}

\* C16: the schema lookup fails with an error naming the project when the
\* remote returns no project, and with an error naming the issue type
\* whenever the requested issue type is not among the issue types returned
\* for the project, an empty list or not; in neither case is a field list
\* returned or cached.
C16_NotFound ==
    (pc # "fetch" /\ lookupResponse.status = 200) =>
        /\ lookupResponse.projects = <<>> =>
               /\ NothingReturnedOrCached
               /\ lookupError = "Project " \o call.project
                                \o " not found or no issue types available"
        /\ (/\ lookupResponse.projects # <<>>
            /\ \A n \in 1..Len(lookupResponse.projects[1].issuetypes) :
                   lookupResponse.projects[1].issuetypes[n].name
                       # call.issue_type) =>
               /\ NothingReturnedOrCached
               /\ lookupError = "Issue type " \o call.issue_type
                                \o " not found in project " \o call.project

\* what the call's _get_field_schema has done once the lookup is over
C20_Lookup ==
    pc \notin {"idle", "fetch"} =>
        /\ Cardinality({n \in 1..Len(trace) : trace[n] = "cache.get"}) = 1
        /\ trace[1] = "cache.get"
        /\ hits + misses = nops
        /\ cacheHit =>
               /\ Invoked("get_project_schema") = {}
               /\ trace = <<"cache.get", "return">>
        /\ ~cacheHit =>
               /\ Invoked("get_project_schema") = {1}
               /\ netlog[1] = Request("get_project_schema", call.project,
                                      call.issue_type, <<>>)
               /\ IF LookupFailed
                  THEN /\ trace = <<"cache.get", "client.get_project_schema",
                                    "raise">>
                       /\ schema = <<>>
                  ELSE /\ trace = <<"cache.get", "client.get_project_schema",
                                    "cache.set", "return">>
                       /\ CallKey \in DOMAIN cache
                       /\ cache[CallKey].fields = schema
                       /\ cache[CallKey].project_key = call.project
                       /\ cache[CallKey].issue_type = call.issue_type
\* a call that takes its schema from the cache leaves the cache as it was,
\* and a failed lookup ends the call without a second request
C20_Step ==
    /\ (pc \in {"idle", "done"} /\ pc' = "validate") => cache' = cache
    /\ pc = "fetch" =>
           /\ pc' \in {"fetch", "validate", "done"}
           /\ pc' = "fetch" => netlog' = netlog
           /\ pc' = "done" => cache' = cache /\ netlog' = netlog

\* C20: one call of _get_field_schema performs exactly one cache get; on a
\* hit the schema endpoint is not called and the cache is not written; on a
\* miss the schema endpoint is called exactly once, also when it fails,
\* and on success the normalized list is stored with set(P, I, ...) before
\* it is returned.
C20_CacheOrFetch == [][C20_Step]_vars /\ []C20_Lookup

\* an expired schema was fetched again, stored and returned
C20_Witness ==
    /\ pc = "validate"
    /\ ~cacheHit
    /\ misses = 2
    /\ trace = <<"cache.get", "client.get_project_schema", "cache.set",
                 "return">>
    /\ cache[CallKey].fields = schema
    /\ cache[CallKey].cached_at > 0

(***************************************************************************)
(* Properties of jira_issue_update (checked under SpecUpdate).             *)
(***************************************************************************)
\* the arguments of the call forwarded as given and those wrapped in a
\* {'name': ...} object, by field key
GivenAsIs ==
    << <<"summary", call.summary>>, <<"description", call.description>>,
       <<"labels", call.labels>>, <<"duedate", call.due_date>> >>
GivenByName ==
    << <<"priority", call.priority>>, <<"assignee", call.assignee>> >>
\* the keys of the fields the caller supplied
SuppliedKeys ==
    {GivenAsIs[n][1] : n \in {m \in 1..Len(GivenAsIs) :
                                  ~IsNone(GivenAsIs[m][2])}}
    \cup {GivenByName[n][1] : n \in {m \in 1..Len(GivenByName) :
                                        ~IsNone(GivenByName[m][2])}}
    \cup DictKeys(call.custom_fields)
\* the value sent for a field key
Sent(k) == netlog[1].data[DictIndex(netlog[1].data, k)][2]

C21_Update ==
    pc # "idle" =>
        /\ Invoked("get_project_schema") = {}
        /\ validated = "none"
        /\ hits = 0 /\ misses = 0
        /\ IF SuppliedKeys = {}
           THEN /\ pc = "done"
                /\ outcome = "No fields provided to update"
                /\ netlog = <<>>
           ELSE /\ outcome # "No fields provided to update"
                /\ netlog[1].endpoint = "update_issue"
                /\ netlog[1].project = call.issue_key
                /\ DictKeys(netlog[1].data) = SuppliedKeys
                /\ Len(netlog[1].data) = Cardinality(SuppliedKeys)
                /\ \A n \in 1..Len(GivenAsIs) :
                       ~IsNone(GivenAsIs[n][2]) =>
                           Sent(GivenAsIs[n][1]) = GivenAsIs[n][2]
                /\ \A n \in 1..Len(GivenByName) :
                       ~IsNone(GivenByName[n][2]) =>
                           Sent(GivenByName[n][1])
                               = PyDict("{'name': '"
                                        \o GivenByName[n][2].v \o "'}")
                /\ \A n \in 1..Len(call.custom_fields) :
                       Sent(call.custom_fields[n][1])
                           = call.custom_fields[n][2]
\* a step of an update call leaves the cache and its counters as they were
C21_Step ==
    pc' # pc => cache' = cache /\ hits' = hits /\ misses' = misses

IssueSchema == <<SummaryField, StoryPoints>>

\* C22: an update whose custom field value violates the schema of the
\* issue's project and type is rejected before the update endpoint is
\* called.
C22_UpdateValidates ==
    Invoked("update_issue") # {} =>
        validate_custom_field_values(call.custom_fields, IssueSchema) = <<>>


(***************************************************************************)
(* Expiry of cache entries (checked under SpecCache).                      *)
(***************************************************************************)
\* the entry of key k is gone or replaced after the step
Dropped(k) == k \notin DOMAIN cache' \/ cache'[k] # cache[k]

C23_Step ==
    /\ \A p \in Pairs :
           LET key == _make_key(p[1], p[2])
           IN  (/\ Get(p[1], p[2])
                /\ key \in DOMAIN cache
                /\ Expired(now, cache[key])) =>
                   /\ DOMAIN cache' = DOMAIN cache \ {key}
                   /\ \A k \in DOMAIN cache' : cache'[k] = cache[k]
                   /\ misses' = misses + 1
                   /\ hits' = hits
                   /\ ~last'.ret.present
                   /\ ~last'.raised
    /\ \A k \in DOMAIN cache :
           (Expired(now, cache[k]) /\ Dropped(k)) =>
               \/ last'.op = "clear_all"
               \/ /\ last'.op \in {"get", "clear", "set"}
                  /\ _make_key(last'.project_key, last'.issue_type) = k
    /\ Tick => cache' = cache

\* C23: a get that finds an entry with now >= expires_at removes exactly
\* that entry, adds 1 to misses, leaves hits and the other entries unchanged
\* and returns None; an expired entry leaves the store only through such a
\* get, clear, clear_all or a set on its key, never through time passing.
C23_LazyExpiry == [][C23_Step]_vars

\* a get has just evicted an expired entry and left another one in place
C23_Witness ==
    /\ last.op = "get"
    /\ ~last.ret.present
    /\ LastKey \in DOMAIN setLog
    /\ setLog[LastKey].evicted
    /\ now >= setLog[LastKey].at + ttl
    /\ LastKey \notin DOMAIN cache
    /\ Cardinality(DOMAIN cache) = 1
    /\ misses = 1


\* every stored entry carries the time of the last set for its key
C27_Window ==
    \A k \in DOMAIN cache :
        /\ k \in DOMAIN setLog
        /\ cache[k].cached_at = setLog[k].at
        /\ cache[k].expires_at = setLog[k].at + ttl

C27_Step ==
    /\ ttl' = ttl
    /\ \A p \in Pairs :
           LET key == _make_key(p[1], p[2])
           IN  /\ (Get(p[1], p[2]) /\ last'.ret.present) =>
                      /\ key \in DOMAIN cache'
                      /\ cache'[key] = cache[key]
               /\ (\E fs \in SchemaLists : Set(p[1], p[2], fs)) =>
                      /\ cache'[key].cached_at = now
                      /\ cache'[key].expires_at = now + ttl

\* C27: every stored entry has expires_at = (time of the last set for its
\* key) + ttl, with the ttl fixed at construction; a get that hits changes
\* neither cached_at nor expires_at, and a set on an existing key restarts
\* the window at now + ttl.
C27_ExpiryFromLastSet == [][C27_Step]_vars /\ []C27_Window

\* time has passed since the set and a get hits the entry, whose window
\* still is the one the set gave it
C27_Witness ==
    /\ last.op = "get"
    /\ last.ret.present
    /\ nops >= 3
    /\ now > setLog[LastKey].at
    /\ setLog[LastKey].at > 0
    /\ cache[LastKey].expires_at = setLog[LastKey].at + ttl
    /\ Cardinality(DOMAIN cache) = 1


(***************************************************************************)
(* The remaining type rules of the validator (checked under                *)
(* SpecValidator).                                                         *)
(***************************************************************************)
\* what the rule of a type asks of a value that is not None
Passes(type, value) ==
    CASE type \in {"string", "date", "datetime"} -> value.t = "str"
      [] type = "array" -> value.t = "list"
      [] type = "user" -> TRUE

\* C24: for a value that is not None, STRING, DATE and DATETIME pass if and
\* only if the value is a str, ARRAY if and only if it is a list whatever
\* its elements, USER always; each rejected field yields exactly one
\* violation, which carries the display name.
C24_RemainingTypeRules ==
    vout.op = "validate_custom_field_values" =>
        \A m \in 1..Len(vin.fields), n \in 1..Len(vin.schema) :
            (/\ vin.schema[n].key = vin.fields[m][1]
             /\ vin.schema[n].type
                    \in {"string", "date", "datetime", "array", "user"}
             /\ ~IsNone(vin.fields[m][2])) =>
                LET named == MessagesNaming(vout.errors, vin.schema[n].name)
                IN  IF Passes(vin.schema[n].type, vin.fields[m][2])
                    THEN named = {}
                    ELSE /\ Cardinality(named) = 1
                         /\ \A i \in named :
                                /\ vout.errors[i][1] = "Field '"
                                /\ vout.errors[i][2] = vin.schema[n].name

\* a str given for an ARRAY field is rejected once, and a list with
\* elements of any kind would pass
C24_Witness ==
    /\ vout.op = "validate_custom_field_values"
    /\ Len(vin.fields) = 1
    /\ Len(vin.schema) = 1
    /\ vin.schema[1].key = vin.fields[1][1]
    /\ vin.schema[1].type = "array"
    /\ vin.fields[1][2].t = "str"
    /\ vout.errors = <<<<"Field '", vin.schema[1].name,
                         "' must be an array">>>>


\* the messages validate_fields raised with, none when it returned
RaisedMessages ==
    IF vout.raised THEN SplitOn(vout.reason, "; ") ELSE <<>>
\* the positions of the 'Missing required fields' messages and of the
\* value violations among them
MissingMessages ==
    {i \in 1..Len(RaisedMessages) :
        RaisedMessages[i][1] = "Missing required fields: "}
ValueMessages == (1..Len(RaisedMessages)) \ MissingMessages

\* C28: under validate_fields a required schema field whose key is absent
\* from the map is named in the single 'Missing required fields' message
\* and in no value violation; one whose key is present with None yields
\* exactly one 'is required' violation and is not listed as missing; there
\* are never more value violations than map keys that occur in the schema.
C28_OneViolationPerRequired ==
    vout.op = "validate_fields" =>
        /\ Cardinality(MissingMessages) <= 1
        /\ Cardinality(ValueMessages) <= Cardinality(KnownPositions)
        /\ \A n \in 1..Len(vin.schema) :
               vin.schema[n].required =>
                   LET name == vin.schema[n].name
                       named == MessagesNaming(RaisedMessages, name)
                       given == {m \in 1..Len(vin.fields) :
                                    vin.fields[m][1] = vin.schema[n].key}
                   IN  /\ Cardinality(named) <= 1
                       /\ given = {} =>
                              /\ Cardinality(named) = 1
                              /\ named \subseteq MissingMessages
                       /\ \A m \in given :
                              IsNone(vin.fields[m][2]) =>
                                  /\ Cardinality(named) = 1
                                  /\ named \subseteq ValueMessages
                                  /\ \A i \in named :
                                         RaisedMessages[i]
                                             = <<"Field '", name,
                                                 "' is required">>

\* of two required fields one is absent and the other given as None: one
\* message for each
C28_Witness ==
    /\ vout.op = "validate_fields"
    /\ vout.raised
    /\ Len(vin.schema) = 2
    /\ \A n \in 1..2 : vin.schema[n].required
    /\ Len(vin.fields) = 1
    /\ IsNone(vin.fields[1][2])
    /\ KnownPositions = {1}
    /\ Cardinality(MissingMessages) = 1
    /\ Cardinality(ValueMessages) = 1


(***************************************************************************)
(* Failure of the schema lookup of a call (checked under Spec).            *)
(***************************************************************************)
\* the remote has answered the call's lookup and no field list could be
\* made of the answer: the fetch failed, the project or the issue type was
\* not found, or a descriptor could not be normalized
ResolvingFailed ==
    /\ pc # "fetch"
    /\ lookupResponse # NoResponse
    /\ LET raw == get_project_schema(call.project, call.issue_type,
                                     lookupResponse)
       IN  raw.raised \/ NormalizeSchema(raw.value).raised

\* C26 as stated: when resolving the schema fails the set of cache entries
\* is exactly what it was before the call.
C26_CacheAsBeforeOriginal ==
    ResolvingFailed => cache = cacheBefore

\* C26 as amended: when resolving the schema fails the call fails with
\* 'Failed to get project schema', neither the validator nor the create
\* endpoint is invoked, and no entry is stored or changed: the store is the
\* one before the call, except that an entry under the call's key that had
\* expired when the call read the cache has been evicted by that read.
C26_LookupFailure ==
    ResolvingFailed =>
        /\ LookupFailed
        /\ lookupError # ""
        /\ validated = "none"
        /\ fields = <<>>
        /\ Invoked("create_issue") = {}
        /\ CallKey \notin DOMAIN cache
        /\ DOMAIN cache \subseteq DOMAIN cacheBefore
        /\ \A k \in DOMAIN cache : cache[k] = cacheBefore[k]
        /\ DOMAIN cacheBefore \ DOMAIN cache \subseteq {CallKey}
        /\ \A k \in DOMAIN cacheBefore \ DOMAIN cache :
               Expired(now, cacheBefore[k])

\* a descriptor with an invalid key ends a call that found an expired entry
\* under its key
C26_Witness ==
    /\ ResolvingFailed
    /\ LookupFailed
    /\ lookupResponse.status = 200
    /\ lookupResponse.projects # <<>>
    /\ lookupResponse.projects[1].issuetypes # <<>>
    /\ DOMAIN cacheBefore = {CallKey}
    /\ cache = EmptyDict


(***************************************************************************)
(* Fetches per TTL window (checked under Spec, which never clears the      *)
(* cache).  fetchLog holds, for each (project, issue type) pair, the time  *)
(* of its last successful fetch.                                           *)
(***************************************************************************)
\* a call starts: its lookup either takes the schema from the cache or
\* calls the schema endpoint
C29_Step ==
    (pc \in {"idle", "done"} /\ pc' \in {"validate", "fetch"}) =>
        LET p == <<call'.project, call'.issue_type>>
        IN  /\ p \in DOMAIN fetchLog =>
                   IF now < fetchLog[p] + ttl
                   THEN pc' = "validate" /\ netlog' = <<>>
                   ELSE pc' = "fetch"
            /\ pc' = "validate" =>
                   /\ p \in DOMAIN fetchLog
                   /\ fetchLog[p] > now - ttl

\* C29: over the create calls on one (project, issue_type), after a
\* successful fetch at time T no call before T + ttl calls the schema
\* endpoint, the first call at or after T + ttl does, and a schema taken
\* from the cache at time now was fetched for that pair later than
\* now - ttl.
C29_OneFetchPerWindow == [][C29_Step]_vars


(***************************************************************************)
(* Standard fields under validation (checked under Spec).                  *)
(***************************************************************************)
\* the schema of the call has an OPTION entry for priority whose allowed
\* values contain the priority the caller gave
PriorityAllowed ==
    /\ IsStr(call.priority)
    /\ \E n \in 1..Len(schema) :
           /\ schema[n].key = "priority"
           /\ schema[n].type = "option"
           /\ schema[n].allowed_values.defined
           /\ MemberOf(call.priority, schema[n].allowed_values.values)

\* C30: a create call with a non-empty summary, a priority taken from the
\* allowed values of the schema's OPTION entry for priority and custom
\* fields that satisfy the schema is accepted by validate_fields and
\* forwarded to the create endpoint.
C30_StandardFieldsPass ==
    (/\ validated # "none"
     /\ PriorityAllowed
     /\ Truthy(call.summary)
     /\ validate_required_fields(fields, schema) = <<>>
     /\ validate_custom_field_values(call.custom_fields, schema) = <<>>) =>
        /\ validated = "ok"
        /\ Invoked("create_issue") # {}


(***************************************************************************)
(* Concurrent callers of get (checked under SpecConcurrent).               *)
(***************************************************************************)
RECURSIVE EndedCalls(_)
\* the number of get calls of the callers in S that have ended
EndedCalls(S) ==
    IF S = {} THEN 0
    ELSE LET i == CHOOSE j \in S : TRUE
         IN  threads[i].calls + EndedCalls(S \ {i})

\* C25: when cache operations run one at a time no get raises and, whenever
\* no call is under way, hits + misses is the number of get calls made;
\* without serialization two interleaved gets on one key can break this.
C25_SerializedSafe ==
    lock # "none" =>
        /\ \A i \in DOMAIN threads : ~threads[i].raised
        /\ Cardinality({i \in DOMAIN threads : threads[i].pc # "idle"})
               <= 1
        /\ (\A i \in DOMAIN threads : threads[i].pc = "idle") =>
               hits + misses = EndedCalls(DOMAIN threads)

\* without serialization both callers found the same expired entry: one
\* evicted it and recorded its miss, the del of the other raised
C25_Witness ==
    /\ lock = "none"
    /\ DOMAIN threads = Callers
    /\ \E i \in Callers : threads[i].raised
    /\ \E i \in Callers : ~threads[i].raised /\ threads[i].calls = 1
    /\ misses = 1
    /\ hits = 0
    /\ DOMAIN cache = {}

=============================================================================
